---- MODULE Spec2Model ----
(***************************************************************************)
(* A model of go6502, a WDC 65C02 interpreter (src/go6502.go, first        *)
(* revision in the file, lines 1-833; src/flags/flags.go; Make16/Hi/Lo).   *)
(*                                                                         *)
(* The CPU struct is the variable cpu.  The MemoryBus is modelled as RAM:  *)
(* mem holds the cells that differ from the fill byte, Clock returns any   *)
(* Interrupt value.  Step is one atomic action; the bus calls it makes are *)
(* recorded, in order, in log.                                             *)
(***************************************************************************)
EXTENDS Integers, Sequences, FiniteSets, TLC

VARIABLES cpu, mem, fill, log, prevLog, pre, preMem, ret, steps, irqs

vars == <<cpu, mem, fill, log, prevLog, pre, preMem, ret, steps, irqs>>

----------------------------------------------------------------------------
(* Bounds of the exploration.                                              *)

\* Number of Step calls the host makes.
MaxSteps == 4

\* Number of Clock calls that report a non-empty Interrupt value.
MaxIrqs == 2

----------------------------------------------------------------------------
(* Fixed-width integers.                                                   *)

U8(n) == n % 256

U16(n) == n % 65536

RECURSIVE BitAndN(_, _, _)
BitAndN(a, b, n) ==
    IF n = 0 THEN 0
    ELSE (IF a % 2 = 1 /\ b % 2 = 1 THEN 1 ELSE 0)
         + 2 * BitAndN(a \div 2, b \div 2, n - 1)

\* a & b on 8-bit (and 16-bit) operands
And(a, b) == BitAndN(a, b, 16)

RECURSIVE BitOrN(_, _, _)
BitOrN(a, b, n) ==
    IF n = 0 THEN 0
    ELSE (IF a % 2 = 1 \/ b % 2 = 1 THEN 1 ELSE 0)
         + 2 * BitOrN(a \div 2, b \div 2, n - 1)

\* a | b
Or(a, b) == BitOrN(a, b, 16)

RECURSIVE BitXorN(_, _, _)
BitXorN(a, b, n) ==
    IF n = 0 THEN 0
    ELSE (IF a % 2 # b % 2 THEN 1 ELSE 0)
         + 2 * BitXorN(a \div 2, b \div 2, n - 1)

\* a ^ b
Xor(a, b) == BitXorN(a, b, 16)

\* ^a on a uint8
Not8(a) == 255 - a

\* a &^ b on a uint8
AndNot(a, b) == And(a, Not8(b))

----------------------------------------------------------------------------
(* utils: Make16, Hi, Lo.                                                  *)

Make16(hi, lo) == Or(hi * 256, lo)

Hi(in) == in \div 256

Lo(in) == And(in, 255)

----------------------------------------------------------------------------
(* flags: Interrupt and ProgramFlags.                                      *)

IRQ == 1
NMI == 2

C == 1
Z == 2
I == 4
D == 8
B == 16
V == 64
N == 128

\* Interrupt.Test and ProgramFlags.Test
Test(f, flags) == And(f, flags) = flags

\* Interrupt.Set and ProgramFlags.Set
Set(f, flags) == Or(f, flags)

\* Interrupt.Clear and ProgramFlags.Clear
Clear(f, flags) == AndNot(f, flags)

\* ProgramFlags.SetIf
SetIf(f, flags, cond) == IF cond THEN Set(f, flags) ELSE Clear(f, flags)

----------------------------------------------------------------------------
(* The memory bus: RAM whose untouched cells hold the byte fl.             *)

BusRead(m, fl, addr) == IF addr \in DOMAIN m THEN m[addr] ELSE fl

BusWrite(m, addr, data) ==
    [a \in (DOMAIN m) \cup {addr} |-> IF a = addr THEN data ELSE m[a]]

Ev(op, a, d) == [op |-> op, a |-> a, d |-> d]

----------------------------------------------------------------------------
(* Basic memory.  A context s carries the CPU fields, the bus (mem, fill,  *)
(* log) and the values a routine returns (data, addr).  A routine that     *)
(* keeps an intermediate result in a local variable is written with a      *)
(* local operator that takes the context holding that result.              *)

memRead(s, addr) ==
    LET read(v) == [s EXCEPT !.cycles = @ + 1,
                             !.log = Append(@, Ev("R", addr, v)),
                             !.data = v]
    IN read(BusRead(s.mem, s.fill, addr))

\* memWrite without the tick.
memWriteNoTick(s, addr, data) ==
    [s EXCEPT !.log = Append(@, Ev("W", addr, data)),
              !.mem = BusWrite(@, addr, data)]

memWrite(s, addr, data) ==
    [s EXCEPT !.cycles = @ + 1,
              !.log = Append(@, Ev("W", addr, data)),
              !.mem = BusWrite(@, addr, data)]

fetch(s) == [memRead(s, s.pc) EXCEPT !.pc = U16(@ + 1)]

\* stackPush that decrements SP before the write.
stackPushPreDecrement(s, data) ==
    LET write(s1) == memWrite(s1, Make16(1, s1.sp), data)
    IN write([s EXCEPT !.sp = U8(@ + 255)])

stackPush(s, data) ==
    [memWrite(s, Make16(1, s.sp), data) EXCEPT !.sp = U8(@ + 255)]

stackPop(s) ==
    LET read(s1) == memRead(s1, Make16(1, s1.sp))
    IN read([s EXCEPT !.sp = U8(@ + 1)])

----------------------------------------------------------------------------
(* Addressing modes: each leaves the effective address in s.addr.          *)

zeroPage(s) ==
    LET done(s1) == [s1 EXCEPT !.addr = s1.data]
    IN done(fetch(s))

zeroPageX(s) ==
    LET done(s1) == [s1 EXCEPT !.addr = U8(s1.data + s1.x)]
    IN done(fetch(s))

zeroPageY(s) ==
    LET done(s1) == [s1 EXCEPT !.addr = U8(s1.data + s1.y)]
    IN done(fetch(s))

absolute(s) ==
    LET done(sLo, sHi) == [sHi EXCEPT !.addr = Make16(sHi.data, sLo.data)]
        addrHi(sLo) == done(sLo, fetch(sLo))
    IN addrHi(fetch(s))

absoluteX(s) ==
    LET done(sLo, sHi) ==
            [sHi EXCEPT !.addr = U16(Make16(sHi.data, sLo.data) + sHi.x)]
        addrHi(sLo) == done(sLo, fetch(sLo))
    IN addrHi(fetch(s))

absoluteY(s) ==
    LET done(sLo, sHi) ==
            [sHi EXCEPT !.addr = U16(Make16(sHi.data, sLo.data) + sHi.y)]
        addrHi(sLo) == done(sLo, fetch(sLo))
    IN addrHi(fetch(s))

indexedIndirect(s) ==
    LET done(sLo, sHi) == [sHi EXCEPT !.addr = Make16(sHi.data, sLo.data)]
        addrHi(target, sLo) == done(sLo, memRead(sLo, U16(target + 1)))
        addrLo(target, s1) == addrHi(target, memRead(s1, target))
        withTarget(s1) == addrLo(U8(s1.data + s1.x), s1)
    IN withTarget(fetch(s))

indirectIndexed(s) ==
    LET done(sLo, sHi) ==
            [sHi EXCEPT !.addr = U16(Make16(sHi.data, sLo.data) + sHi.y)]
        addrHi(target, sLo) == done(sLo, memRead(sLo, U16(target + 1)))
        addrLo(target, s1) == addrHi(target, memRead(s1, target))
        withTarget(s1) == addrLo(s1.data, s1)
    IN withTarget(fetch(s))

\* A call through an addrModeReadFn value; "nil" is the nil function.
addrModeCall(mode, s) ==
    CASE mode = "zeroPage" -> zeroPage(s)
      [] mode = "zeroPageX" -> zeroPageX(s)
      [] mode = "zeroPageY" -> zeroPageY(s)
      [] mode = "absolute" -> absolute(s)
      [] mode = "absoluteX" -> absoluteX(s)
      [] mode = "absoluteY" -> absoluteY(s)
      [] mode = "indexedIndirect" -> indexedIndirect(s)
      [] mode = "indirectIndexed" -> indirectIndexed(s)

\* Resolve an address and load the data: s.data and s.addr are the results.
dataAddr(s, mode) ==
    LET load(s1) == memRead(s1, s1.addr)
    IN IF mode = "nil"
       THEN [fetch(s) EXCEPT !.addr = 0]
       ELSE load(addrModeCall(mode, s))

----------------------------------------------------------------------------
(* Instruction helpers.                                                    *)

setNZ(s, data) ==
    [s EXCEPT !.pf = SetIf(SetIf(@, N, And(data, 128) # 0), Z, data = 0)]

binaryArithmetic(s, data) ==
    LET flagN(pf, finalResult) == SetIf(pf, N, And(finalResult, 128) # 0)
        flagV(pf, finalResult) ==
            SetIf(pf, V,
                  Not8(And(Xor(s.acc, data), Xor(s.acc, finalResult))) = 128)
        flagZ(pf, finalResult) == SetIf(pf, Z, finalResult = 0)
        flagC(pf, result) == SetIf(pf, C, And(result, 256) # 0)
        flags(result, finalResult) ==
            flagC(flagZ(flagV(flagN(s.pf, finalResult), finalResult),
                        finalResult), result)
        final(result) ==
            [s EXCEPT !.pf = flags(result, Lo(result)), !.acc = Lo(result)]
    IN final(s.acc + data + And(s.pf, C))

----------------------------------------------------------------------------
(* Arithmetic.                                                             *)

adc(s, mode) ==
    LET arith(s1) ==
            IF Test(s1.pf, D) THEN s1 ELSE binaryArithmetic(s1, s1.data)
    IN arith(dataAddr(s, mode))

\* sbc that adds the operand as it is, without inverting it.
sbcNoInvert(s, mode) ==
    LET arith(s1) ==
            IF Test(s1.pf, D) THEN s1 ELSE binaryArithmetic(s1, s1.data)
    IN arith(dataAddr(s, mode))

sbc(s, mode) ==
    LET arith(s1) ==
            IF Test(s1.pf, D) THEN s1 ELSE binaryArithmetic(s1, Not8(s1.data))
    IN arith(dataAddr(s, mode))

inc(s, mode) ==
    LET store(s1) == memWrite(s1, s1.addr, U8(s1.data + 1))
    IN store(dataAddr(s, mode))

dec(s, mode) ==
    LET store(s1) == memWrite(s1, s1.addr, U8(s1.data + 255))
    IN store(dataAddr(s, mode))

inx(s) == [s EXCEPT !.x = U8(@ + 1)]

dex(s) == [s EXCEPT !.x = U8(@ + 255)]

iny(s) == [s EXCEPT !.y = U8(@ + 1)]

dey(s) == [s EXCEPT !.y = U8(@ + 255)]

----------------------------------------------------------------------------
(* Bitwise.                                                                *)

ora(s, mode) ==
    LET flags(s2) == setNZ(s2, s2.acc)
        apply(s1) == flags([s1 EXCEPT !.acc = Or(@, s1.data)])
    IN apply(dataAddr(s, mode))

and(s, mode) ==
    LET flags(s2) == setNZ(s2, s2.acc)
        apply(s1) == flags([s1 EXCEPT !.acc = And(@, s1.data)])
    IN apply(dataAddr(s, mode))

eor(s, mode) ==
    LET flags(s2) == setNZ(s2, s2.acc)
        apply(s1) == flags([s1 EXCEPT !.acc = Xor(@, s1.data)])
    IN apply(dataAddr(s, mode))

\* The operand of a shift or rotate: dataAddr on the nil mode, the
\* accumulator (and address 0) on every other mode.
shiftOperand(s, mode) ==
    IF mode = "nil"
    THEN dataAddr(s, mode)
    ELSE [s EXCEPT !.data = s.acc, !.addr = 0]

\* The store of a shift or rotate.
shiftStore(s, mode, result) ==
    IF mode = "nil"
    THEN memWrite(s, s.addr, result)
    ELSE [s EXCEPT !.acc = result]

asl(s, mode) ==
    LET shift(s1) ==
            shiftStore(
                setNZ([s1 EXCEPT !.pf = SetIf(@, C, And(s1.data, 128) # 0)],
                      s1.data),
                mode, U8(s1.data * 2))
    IN shift(shiftOperand(s, mode))

lsr(s, mode) ==
    LET shift(s1) ==
            shiftStore(
                setNZ([s1 EXCEPT !.pf = SetIf(@, C, And(s1.data, 1) # 0)],
                      s1.data),
                mode, s1.data \div 2)
    IN shift(shiftOperand(s, mode))

rol(s, mode) ==
    LET shift(s1) ==
            shiftStore(
                setNZ([s1 EXCEPT !.pf = SetIf(@, C, And(s1.data, 128) # 0)],
                      s1.data),
                mode, Or(U8(s1.data * 2), And(s1.pf, C)))
    IN shift(shiftOperand(s, mode))

ror(s, mode) ==
    LET shift(s1) ==
            shiftStore(
                setNZ([s1 EXCEPT !.pf = SetIf(@, C, And(s1.data, 1) # 0)],
                      s1.data),
                mode, Or(s1.data \div 2, U8(And(s1.pf, C) * 128)))
    IN shift(shiftOperand(s, mode))

----------------------------------------------------------------------------
(* Data moving.                                                            *)

sta(s, mode) ==
    LET store(s1) == memWrite(s1, s1.addr, s1.acc)
    IN store(addrModeCall(mode, s))

sty(s, mode) ==
    LET store(s1) == memWrite(s1, s1.addr, s1.y)
    IN store(addrModeCall(mode, s))

stx(s, mode) ==
    LET store(s1) == memWrite(s1, s1.addr, s1.x)
    IN store(addrModeCall(mode, s))

lda(s, mode) ==
    LET load(s1) == [setNZ(s1, s1.data) EXCEPT !.acc = s1.data]
    IN load(dataAddr(s, mode))

ldy(s, mode) ==
    LET load(s1) == [setNZ(s1, s1.data) EXCEPT !.y = s1.data]
    IN load(dataAddr(s, mode))

ldx(s, mode) ==
    LET load(s1) == [setNZ(s1, s1.data) EXCEPT !.x = s1.data]
    IN load(dataAddr(s, mode))

----------------------------------------------------------------------------
(* Flags.                                                                  *)

\* cmp that sets C only when the register is strictly greater.
cmpCarryStrict(s, reg, mode) ==
    LET flags(s1) ==
            [setNZ(s1, U8(reg + 256 - s1.data))
                EXCEPT !.pf = SetIf(@, C, reg > s1.data)]
    IN flags(dataAddr(s, mode))

cmp(s, reg, mode) ==
    LET flags(s1) ==
            [setNZ(s1, U8(reg + 256 - s1.data))
                EXCEPT !.pf = SetIf(@, C, reg >= s1.data)]
    IN flags(dataAddr(s, mode))

bit(s, mode) ==
    LET flags(s1) ==
            [s1 EXCEPT !.pf =
                SetIf(SetIf(SetIf(@, N, And(s1.data, 128) # 0),
                            V, And(s1.data, 64) # 0),
                      Z, And(s1.acc, s1.data) = 0)]
    IN flags(dataAddr(s, mode))

----------------------------------------------------------------------------
(* Branches and jumps.                                                     *)

\* int16(int8(b)) converted to uint16
SignExtend(b) == IF b >= 128 THEN 65280 + b ELSE b

\* branch that adds the displacement as an unsigned byte.
branchUnsigned(s, cond) ==
    LET jump(s1) ==
            IF cond THEN [s1 EXCEPT !.pc = U16(@ + s1.data)]
                    ELSE s1
    IN jump(fetch(s))

branch(s, cond) ==
    LET jump(s1) ==
            IF cond THEN [s1 EXCEPT !.pc = U16(@ + SignExtend(s1.data))]
                    ELSE s1
    IN jump(fetch(s))

jmpAbsolute(s) ==
    LET jump(s1) == [s1 EXCEPT !.pc = s1.addr]
    IN jump(absolute(s))

jmpIndirect(s) ==
    LET done(sLo, sHi) == [sHi EXCEPT !.pc = Make16(sHi.data, sLo.data)]
        pcHi(addr, sLo) ==
            done(sLo, memRead(sLo, Make16(Hi(addr), U8(Lo(addr) + 1))))
        pcLo(s1) == pcHi(s1.addr, memRead(s1, s1.addr))
    IN pcLo(absolute(s))

\* jsr that stores the address of the next instruction.
jsrStoreNext(s) ==
    LET push(addr, storePC, s1) ==
            [stackPush(stackPush(s1, Hi(storePC)), Lo(storePC))
                EXCEPT !.pc = addr]
        call(s1) == push(s1.addr, s1.pc, s1)
    IN call(absolute(s))

jsr(s) ==
    LET push(addr, storePC, s1) ==
            [stackPush(stackPush(s1, Hi(storePC)), Lo(storePC))
                EXCEPT !.pc = addr]
        call(s1) == push(s1.addr, U16(s1.pc + 65535), s1)
    IN call(absolute(s))

rts(s) ==
    LET done(sLo, sHi) ==
            [sHi EXCEPT !.pc = U16(Make16(sHi.data, sLo.data) + 1)]
        cpuHi(sLo) == done(sLo, stackPop(sLo))
    IN cpuHi(stackPop(s))

\* rti that adds one to the popped address, as rts does.
rtiPlusOne(s) ==
    LET done(sLo, sHi) ==
            [sHi EXCEPT !.pc = U16(Make16(sHi.data, sLo.data) + 1)]
        cpuHi(sLo) == done(sLo, stackPop(sLo))
        cpuLo(s1) == cpuHi(stackPop([s1 EXCEPT !.pf = s1.data]))
    IN cpuLo(stackPop(s))

rti(s) ==
    LET done(sLo, sHi) == [sHi EXCEPT !.pc = Make16(sHi.data, sLo.data)]
        cpuHi(sLo) == done(sLo, stackPop(sLo))
        cpuLo(s1) == cpuHi(stackPop([s1 EXCEPT !.pf = s1.data]))
    IN cpuLo(stackPop(s))

----------------------------------------------------------------------------
(* Interrupts.                                                             *)

\* interruptRoutine that pushes PC low before PC high.
interruptRoutineLoFirst(s, intFlag, vector) ==
    LET done(sLo, sHi) == [sHi EXCEPT !.pc = Make16(sHi.data, sLo.data)]
        pcHi(sLo) == done(sLo, memRead(sLo, U16(vector + 1)))
        pushPf(s3) == stackPush(s3, s3.pf)
        pushHi(s2) == stackPush(s2, Hi(s2.pc))
        pushLo(s1) == stackPush(s1, Lo(s1.pc))
    IN pcHi(memRead(
           [pushPf(pushHi(pushLo([s EXCEPT !.intMask = Clear(@, intFlag)])))
               EXCEPT !.pf = Set(@, I)],
           vector))

interruptRoutine(s, intFlag, vector) ==
    LET done(sLo, sHi) == [sHi EXCEPT !.pc = Make16(sHi.data, sLo.data)]
        pcHi(sLo) == done(sLo, memRead(sLo, U16(vector + 1)))
        pushPf(s3) == stackPush(s3, s3.pf)
        pushLo(s2) == stackPush(s2, Lo(s2.pc))
        pushHi(s1) == stackPush(s1, Hi(s1.pc))
    IN pcHi(memRead(
           [pushPf(pushLo(pushHi([s EXCEPT !.intMask = Clear(@, intFlag)])))
               EXCEPT !.pf = Set(@, I)],
           vector))

\* handleInterrupt that tests IRQ before NMI.
handleInterruptIrqFirst(s) ==
    IF Test(s.intMask, IRQ) /\ ~Test(s.pf, I)
    THEN interruptRoutine(s, IRQ, 65534)
    ELSE IF Test(s.intMask, NMI)
         THEN interruptRoutine(s, NMI, 65530)
         ELSE s

handleInterrupt(s) ==
    IF Test(s.intMask, NMI)
    THEN interruptRoutine(s, NMI, 65530)
    ELSE IF Test(s.intMask, IRQ) /\ ~Test(s.pf, I)
         THEN interruptRoutine(s, IRQ, 65534)
         ELSE s

brk(s) ==
    [interruptRoutine([s EXCEPT !.pf = Set(@, B)], IRQ, 65534)
        EXCEPT !.pf = Clear(@, B)]

----------------------------------------------------------------------------
(* The switch of executeInstruction: the routine and addressing mode of    *)
(* each opcode byte ("nil" is the nil addressing mode, "none" a routine    *)
(* without one); a byte without a case is "undefined".                     *)

opcodeCase(instr) ==
    CASE instr = 0 -> <<"brk", "none">>
      [] instr = 1 -> <<"ora", "indexedIndirect">>
      [] instr = 5 -> <<"ora", "zeroPage">>
      [] instr = 6 -> <<"asl", "zeroPage">>
      [] instr = 8 -> <<"php", "none">>
      [] instr = 9 -> <<"ora", "nil">>
      [] instr = 10 -> <<"asl", "nil">>
      [] instr = 13 -> <<"ora", "absolute">>
      [] instr = 14 -> <<"asl", "absolute">>
      [] instr = 16 -> <<"bpl", "none">>
      [] instr = 17 -> <<"ora", "indirectIndexed">>
      [] instr = 21 -> <<"ora", "zeroPageX">>
      [] instr = 22 -> <<"asl", "zeroPageX">>
      [] instr = 24 -> <<"clc", "none">>
      [] instr = 25 -> <<"ora", "absoluteY">>
      [] instr = 29 -> <<"ora", "absoluteX">>
      [] instr = 30 -> <<"asl", "absoluteX">>
      [] instr = 32 -> <<"jsr", "none">>
      [] instr = 33 -> <<"and", "indexedIndirect">>
      [] instr = 36 -> <<"bit", "zeroPage">>
      [] instr = 37 -> <<"and", "zeroPage">>
      [] instr = 38 -> <<"rol", "zeroPage">>
      [] instr = 40 -> <<"plp", "none">>
      [] instr = 41 -> <<"and", "nil">>
      [] instr = 42 -> <<"rol", "nil">>
      [] instr = 44 -> <<"bit", "absolute">>
      [] instr = 45 -> <<"and", "absolute">>
      [] instr = 46 -> <<"rol", "absolute">>
      [] instr = 48 -> <<"bmi", "none">>
      [] instr = 49 -> <<"and", "indirectIndexed">>
      [] instr = 53 -> <<"and", "zeroPageX">>
      [] instr = 54 -> <<"rol", "zeroPageX">>
      [] instr = 56 -> <<"sec", "none">>
      [] instr = 57 -> <<"and", "absoluteY">>
      [] instr = 61 -> <<"and", "absoluteX">>
      [] instr = 62 -> <<"rol", "absoluteX">>
      [] instr = 64 -> <<"rti", "none">>
      [] instr = 65 -> <<"eor", "indexedIndirect">>
      [] instr = 69 -> <<"eor", "zeroPage">>
      [] instr = 70 -> <<"lsr", "zeroPage">>
      [] instr = 72 -> <<"pha", "none">>
      [] instr = 73 -> <<"eor", "nil">>
      [] instr = 74 -> <<"lsr", "nil">>
      [] instr = 76 -> <<"jmpAbsolute", "none">>
      [] instr = 77 -> <<"eor", "absolute">>
      [] instr = 78 -> <<"lsr", "absolute">>
      [] instr = 80 -> <<"bvc", "none">>
      [] instr = 81 -> <<"eor", "indirectIndexed">>
      [] instr = 85 -> <<"eor", "zeroPageX">>
      [] instr = 86 -> <<"lsr", "zeroPageX">>
      [] instr = 88 -> <<"cli", "none">>
      [] instr = 89 -> <<"eor", "absoluteY">>
      [] instr = 93 -> <<"eor", "absoluteX">>
      [] instr = 94 -> <<"lsr", "absoluteX">>
      [] instr = 96 -> <<"rts", "none">>
      [] instr = 97 -> <<"adc", "indexedIndirect">>
      [] instr = 101 -> <<"adc", "zeroPage">>
      [] instr = 102 -> <<"ror", "zeroPage">>
      [] instr = 104 -> <<"pla", "none">>
      [] instr = 105 -> <<"adc", "nil">>
      [] instr = 106 -> <<"ror", "nil">>
      [] instr = 108 -> <<"jmpIndirect", "none">>
      [] instr = 109 -> <<"adc", "absolute">>
      [] instr = 110 -> <<"ror", "absolute">>
      [] instr = 112 -> <<"bvs", "none">>
      [] instr = 113 -> <<"adc", "indirectIndexed">>
      [] instr = 117 -> <<"adc", "zeroPageX">>
      [] instr = 118 -> <<"ror", "zeroPageX">>
      [] instr = 120 -> <<"sei", "none">>
      [] instr = 121 -> <<"adc", "absoluteY">>
      [] instr = 125 -> <<"adc", "absoluteX">>
      [] instr = 126 -> <<"ror", "absoluteX">>
      [] instr = 129 -> <<"sta", "indexedIndirect">>
      [] instr = 132 -> <<"sty", "zeroPage">>
      [] instr = 133 -> <<"sta", "zeroPage">>
      [] instr = 134 -> <<"stx", "zeroPage">>
      [] instr = 136 -> <<"dey", "none">>
      [] instr = 138 -> <<"txa", "none">>
      [] instr = 140 -> <<"sty", "absolute">>
      [] instr = 141 -> <<"sta", "absolute">>
      [] instr = 142 -> <<"stx", "absolute">>
      [] instr = 144 -> <<"bcc", "none">>
      [] instr = 145 -> <<"sta", "indirectIndexed">>
      [] instr = 148 -> <<"sty", "zeroPageX">>
      [] instr = 149 -> <<"sta", "zeroPageX">>
      [] instr = 150 -> <<"stx", "zeroPageY">>
      [] instr = 152 -> <<"tya", "none">>
      [] instr = 153 -> <<"sta", "absoluteY">>
      [] instr = 154 -> <<"txs", "none">>
      [] instr = 157 -> <<"sta", "absoluteX">>
      [] instr = 160 -> <<"ldy", "nil">>
      [] instr = 161 -> <<"lda", "indexedIndirect">>
      [] instr = 162 -> <<"ldx", "nil">>
      [] instr = 164 -> <<"ldy", "zeroPage">>
      [] instr = 165 -> <<"lda", "zeroPage">>
      [] instr = 166 -> <<"ldx", "zeroPage">>
      [] instr = 168 -> <<"tay", "none">>
      [] instr = 169 -> <<"lda", "nil">>
      [] instr = 170 -> <<"tax", "none">>
      [] instr = 172 -> <<"ldy", "absolute">>
      [] instr = 173 -> <<"lda", "absolute">>
      [] instr = 174 -> <<"ldx", "absolute">>
      [] instr = 176 -> <<"bcs", "none">>
      [] instr = 177 -> <<"lda", "indirectIndexed">>
      [] instr = 180 -> <<"ldy", "zeroPageX">>
      [] instr = 181 -> <<"lda", "zeroPageX">>
      [] instr = 182 -> <<"ldx", "zeroPageY">>
      [] instr = 184 -> <<"clv", "none">>
      [] instr = 185 -> <<"lda", "absoluteY">>
      [] instr = 186 -> <<"tsx", "none">>
      [] instr = 188 -> <<"ldy", "absoluteX">>
      [] instr = 189 -> <<"lda", "absoluteX">>
      [] instr = 190 -> <<"ldx", "absoluteY">>
      [] instr = 192 -> <<"cpy", "nil">>
      [] instr = 193 -> <<"cmp", "indexedIndirect">>
      [] instr = 196 -> <<"cpy", "zeroPage">>
      [] instr = 197 -> <<"cmp", "zeroPage">>
      [] instr = 198 -> <<"dec", "zeroPage">>
      [] instr = 200 -> <<"iny", "none">>
      [] instr = 201 -> <<"cmp", "nil">>
      [] instr = 202 -> <<"dex", "none">>
      [] instr = 204 -> <<"cpy", "absolute">>
      [] instr = 205 -> <<"cmp", "absolute">>
      [] instr = 206 -> <<"dec", "absolute">>
      [] instr = 208 -> <<"bne", "none">>
      [] instr = 209 -> <<"cmp", "indirectIndexed">>
      [] instr = 213 -> <<"cmp", "zeroPageX">>
      [] instr = 214 -> <<"dec", "zeroPageX">>
      [] instr = 216 -> <<"cld", "none">>
      [] instr = 217 -> <<"cmp", "absoluteY">>
      [] instr = 221 -> <<"cmp", "absoluteX">>
      [] instr = 222 -> <<"dec", "absoluteX">>
      [] instr = 224 -> <<"cpx", "nil">>
      [] instr = 225 -> <<"sbc", "indexedIndirect">>
      [] instr = 228 -> <<"cpx", "zeroPage">>
      [] instr = 229 -> <<"sbc", "zeroPage">>
      [] instr = 230 -> <<"inc", "zeroPage">>
      [] instr = 232 -> <<"inx", "none">>
      [] instr = 233 -> <<"sbc", "nil">>
      [] instr = 236 -> <<"cpx", "absolute">>
      [] instr = 237 -> <<"sbc", "absolute">>
      [] instr = 238 -> <<"inc", "absolute">>
      [] instr = 240 -> <<"beq", "none">>
      [] instr = 241 -> <<"sbc", "indirectIndexed">>
      [] instr = 245 -> <<"sbc", "zeroPageX">>
      [] instr = 246 -> <<"inc", "zeroPageX">>
      [] instr = 248 -> <<"sed", "none">>
      [] instr = 249 -> <<"sbc", "absoluteY">>
      [] instr = 253 -> <<"sbc", "absoluteX">>
      [] instr = 254 -> <<"inc", "absoluteX">>
      [] OTHER -> <<"undefined", "none">>

opcodeTable == [instr \in 0..255 |-> opcodeCase(instr)]

\* The case of the switch that op names, run on the context after the fetch.
execute(op, mode, s) ==
    LET plp(s1) == [s1 EXCEPT !.pf = s1.data]
        pla(s1) == [s1 EXCEPT !.acc = s1.data]
    IN CASE op = "brk" -> brk(s)
         [] op = "ora" -> ora(s, mode)
         [] op = "and" -> and(s, mode)
         [] op = "eor" -> eor(s, mode)
         [] op = "adc" -> adc(s, mode)
         [] op = "sta" -> sta(s, mode)
         [] op = "sty" -> sty(s, mode)
         [] op = "stx" -> stx(s, mode)
         [] op = "lda" -> lda(s, mode)
         [] op = "ldy" -> ldy(s, mode)
         [] op = "ldx" -> ldx(s, mode)
         [] op = "cpy" -> cmp(s, s.y, mode)
         [] op = "cpx" -> cmp(s, s.x, mode)
         [] op = "cmp" -> cmp(s, s.acc, mode)
         [] op = "sbc" -> sbc(s, mode)
         [] op = "asl" -> asl(s, mode)
         [] op = "rol" -> rol(s, mode)
         [] op = "lsr" -> lsr(s, mode)
         [] op = "ror" -> ror(s, mode)
         [] op = "dec" -> dec(s, mode)
         [] op = "inc" -> inc(s, mode)
         [] op = "dex" -> dex(s)
         [] op = "dey" -> dey(s)
         [] op = "inx" -> inx(s)
         [] op = "iny" -> iny(s)
         [] op = "tya" -> [setNZ(s, s.y) EXCEPT !.acc = s.y]
         [] op = "tay" -> [setNZ(s, s.acc) EXCEPT !.y = s.acc]
         [] op = "txa" -> [setNZ(s, s.x) EXCEPT !.acc = s.x]
         [] op = "txs" -> [setNZ(s, s.x) EXCEPT !.sp = s.x]
         [] op = "tax" -> [setNZ(s, s.acc) EXCEPT !.x = s.acc]
         [] op = "tsx" -> [setNZ(s, s.sp) EXCEPT !.x = s.sp]
         [] op = "clc" -> [s EXCEPT !.pf = Clear(@, C)]
         [] op = "sec" -> [s EXCEPT !.pf = Set(@, C)]
         [] op = "cli" -> [s EXCEPT !.pf = Clear(@, I)]
         [] op = "sei" -> [s EXCEPT !.pf = Set(@, I)]
         [] op = "clv" -> [s EXCEPT !.pf = Clear(@, V)]
         [] op = "cld" -> [s EXCEPT !.pf = Clear(@, D)]
         [] op = "sed" -> [s EXCEPT !.pf = Set(@, D)]
         [] op = "bit" -> bit(s, mode)
         [] op = "php" -> stackPush(s, s.pf)
         [] op = "plp" -> plp(stackPop(s))
         [] op = "pha" -> stackPush(s, s.acc)
         [] op = "pla" -> pla(stackPop(s))
         [] op = "bpl" -> branch(s, ~Test(s.pf, N))
         [] op = "bmi" -> branch(s, Test(s.pf, N))
         [] op = "bvc" -> branch(s, ~Test(s.pf, V))
         [] op = "bvs" -> branch(s, Test(s.pf, V))
         [] op = "bcc" -> branch(s, ~Test(s.pf, C))
         [] op = "bcs" -> branch(s, Test(s.pf, C))
         [] op = "bne" -> branch(s, ~Test(s.pf, Z))
         [] op = "beq" -> branch(s, Test(s.pf, Z))
         [] op = "jsr" -> jsr(s)
         [] op = "jmpAbsolute" -> jmpAbsolute(s)
         [] op = "jmpIndirect" -> jmpIndirect(s)
         [] op = "rti" -> rti(s)
         [] op = "rts" -> rts(s)
         [] OTHER -> s

\* executeInstruction that halts the CPU on a byte without a case.
executeInstructionHaltUnknown(s0) ==
    LET switch(s) ==
            IF opcodeTable[s.data][1] = "undefined"
            THEN [s EXCEPT !.halt = TRUE]
            ELSE execute(opcodeTable[s.data][1], opcodeTable[s.data][2], s)
    IN switch(fetch(s0))

executeInstruction(s0) ==
    LET switch(s) == execute(opcodeTable[s.data][1], opcodeTable[s.data][2], s)
    IN switch(fetch(s0))

----------------------------------------------------------------------------
(* New and Step.                                                           *)

New ==
    [acc |-> 0, x |-> 0, y |-> 0, sp |-> 255, pc |-> 65534, pf |-> 0,
     halt |-> FALSE, intMask |-> 0, cycles |-> 0]

\* The values the bus may return from Clock.
ClockResults == {0, IRQ, NMI, IRQ + NMI}

\* The opcode bytes a memory image is made of: BRK, PHP, JSR, PLP, RTI,
\* PHA, CLI, RTS, PLA, SEI, TXS, NOP, SED.
OpSet == {0, 8, 32, 40, 64, 72, 88, 96, 104, 120, 154, 234, 248}

\* The bytes that follow an arbitrary first opcode: RTI, NOP.
OperandSet == {64, 234}

\* The memory images, <<a, b, f>>: a at 0xFFFE and b at 0xFFFF, where New
\* leaves PC, and f in every other cell.  Either the three bytes are drawn
\* from OpSet, or the first is any byte and the others are from OperandSet.
Images ==
    (OpSet \X OpSet \X OpSet) \cup ((0..255) \X OperandSet \X OperandSet)

\* The context of a Step: the CPU fields and the bus.
Context(c, m, fl) ==
    [acc |-> c.acc, x |-> c.x, y |-> c.y, sp |-> c.sp, pc |-> c.pc,
     pf |-> c.pf, halt |-> c.halt, intMask |-> c.intMask,
     cycles |-> c.cycles, mem |-> m, fill |-> fl, log |-> <<>>,
     data |-> 0, addr |-> 0]

\* The CPU fields of a context.
Fields(s) ==
    [acc |-> s.acc, x |-> s.x, y |-> s.y, sp |-> s.sp, pc |-> s.pc,
     pf |-> s.pf, halt |-> s.halt, intMask |-> s.intMask,
     cycles |-> s.cycles]

\* The body of Step up to the Clock call.
StepWork(s) ==
    IF s.intMask # 0
    THEN handleInterrupt(s)
    ELSE IF ~s.halt THEN executeInstruction(s) ELSE s

\* StepClock that overwrites the latch with the result of Clock.
StepClockOverwrite(s, clk) ==
    [s EXCEPT !.cycles = 0,
              !.log = Append(@, Ev("C", s.cycles, clk)),
              !.intMask = clk,
              !.data = s.cycles]

\* The end of Step: snapshot and zero the counter, clock the bus (which
\* returns clk) and merge the result into the latch; s.data is the value
\* Step returns.
StepClock(s, clk) ==
    [s EXCEPT !.cycles = 0,
              !.log = Append(@, Ev("C", s.cycles, clk)),
              !.intMask = Set(@, clk),
              !.data = s.cycles]

\* The state a Step leaves behind.
StepResult(s) ==
    /\ cpu' = Fields(s)
    /\ mem' = s.mem
    /\ log' = s.log
    /\ ret' = s.data

Init ==
    /\ cpu = New
    /\ \E im \in Images :
          /\ mem = (65534 :> im[1]) @@ (65535 :> im[2])
          /\ fill = im[3]
    /\ log = <<>>
    /\ prevLog = <<>>
    /\ pre = New
    /\ preMem = mem
    /\ ret = 0
    /\ steps = 0
    /\ irqs = 0

Step ==
    /\ steps < MaxSteps
    /\ \E clk \in ClockResults :
          /\ clk # 0 => irqs < MaxIrqs
          /\ StepResult(StepClock(StepWork(Context(cpu, mem, fill)), clk))
          /\ irqs' = IF clk # 0 THEN irqs + 1 ELSE irqs
    /\ prevLog' = log
    /\ pre' = cpu
    /\ preMem' = mem
    /\ steps' = steps + 1
    /\ UNCHANGED fill

Next == Step

Spec == Init /\ [][Next]_vars

----------------------------------------------------------------------------
(* Runs from a prepared state.  Every register state with halt clear is    *)
(* one a program reaches from New: JMP loads PC, LDA/LDX/LDY the           *)
(* registers, TXS the stack pointer, PLP the status byte, and Clock the    *)
(* latch.  A setup is such a CPU with the memory the run starts from.      *)

\* The CPU New builds, after a program has loaded its registers.
Prepared(acc, x, y, sp, pc, pf, intMask) ==
    [New EXCEPT !.acc = acc, !.x = x, !.y = y, !.sp = sp, !.pc = pc,
                !.pf = pf, !.intMask = intMask]

\* The memory cells that hold bytes from address org on (wrapping at 0xFFFF).
RECURSIVE Place(_, _)
Place(org, bytes) ==
    IF Len(bytes) = 1
    THEN org :> bytes[1]
    ELSE (org :> bytes[1]) @@ Place(U16(org + 1), Tail(bytes))

\* A setup: the CPU, the written memory cells, the byte of every other
\* cell, and the number of non-empty Clock results the bus has given.
Setup(c, m, fl, n) == [cpu |-> c, mem |-> m, fill |-> fl, irqs |-> n]

\* The state of a run that starts in the setup u.
InitAt(u) ==
    /\ cpu = u.cpu
    /\ mem = u.mem
    /\ fill = u.fill
    /\ irqs = u.irqs
    /\ log = <<>>
    /\ prevLog = <<>>
    /\ pre = cpu
    /\ preMem = mem
    /\ ret = 0
    /\ steps = 0

\* The state a run starts in is one of the setups.
InitFrom(setups) == \E u \in setups : InitAt(u)

\* PHA; LDA #v; PLA at 0x0200, NOP elsewhere.
SetupsPushPull ==
    {Setup(Prepared(a, 0, 0, sp, 512, pf, 0),
           Place(512, <<72, 169, v, 104>>), 234, 0) :
        a \in {0, 1, 128, 255}, v \in {0, 127, 128},
        sp \in {0, 1, 255}, pf \in {0, Z, N, C + V, C + Z + I + V + N}}

\* A latched NMI or IRQ with PC anywhere; the NMI vector points to 0x8000
\* and the IRQ vector to 0x9000, an RTI at both; NOP elsewhere.
SetupsInterruptReturn ==
    {Setup(Prepared(17, 34, 51, sp, pc, pf, im),
           Place(65530, <<0, 128>>) @@ Place(65534, <<0, 144>>)
               @@ Place(32768, <<64>>) @@ Place(36864, <<64>>), 234, 0) :
        sp \in {0, 1, 2, 255}, pc \in {512, 4660, 65535},
        pf \in {0, I, C + D, B + 32, Z + V + N, 255}, im \in {IRQ, NMI}}

\* JSR t at a (wrapping at 0xFFFF), an RTS at t; NOP elsewhere.
SetupsCallReturn ==
    {Setup(Prepared(17, 34, 51, sp, a, pf, 0),
           Place(a, <<32, Lo(tgt), Hi(tgt)>>) @@ Place(tgt, <<96>>), 234, 0) :
        a \in {509, 512, 65533, 65534, 65535}, tgt \in {32771, 36864},
        sp \in {0, 1, 128, 255}, pf \in {0, C + Z + I + D + V + N}}

\* JMP (ptr) at 0x0200; 0x1234 stored at ptr and ptr+1, 0x56 at the start
\* of the page of ptr; NOP elsewhere.
SetupsJumpIndirect ==
    {Setup(Prepared(17, 34, 51, 255, 512, pf, 0),
           Place(512, <<108, Lo(ptr), Hi(ptr)>>) @@ Place(ptr, <<52, 18>>)
               @@ Place(Make16(Hi(ptr), 0), <<86>>), 234, 0) :
        ptr \in {4096, 4350, 4351, 65535}, pf \in {0, C + Z + I + D + V + N}}

\* ADC #m; SBC #m at 0x0200 with accumulator a and status pf, on a bus
\* that reports no interrupt; NOP elsewhere.
SetupAddSubtract(a, m, pf) ==
    Setup(Prepared(a, 34, 51, 255, 512, pf, 0),
          Place(512, <<105, m, 233, m>>), 234, MaxIrqs)

\* CLC; LDA #$50; ADC #$50 at 0x8000.
SetupsAddExample ==
    {Setup(Prepared(0, 0, 0, 255, 32768, C + Z, 0),
           Place(32768, <<24, 169, 80, 105, 80>>), 234, MaxIrqs)}

\* Every accumulator and operand, carry clear and set, D clear.
InitArith ==
    \/ \E a \in 0..255, m \in 0..255, pf \in {Z + N, C + V} :
          InitAt(SetupAddSubtract(a, m, pf))
    \/ InitFrom(SetupsAddExample)

SpecArith == InitArith /\ [][Next]_vars

\* CMP #m; CPX #m; CPY #m at 0x0200 with A = r, X = r + 0x55 and
\* Y = r + 0xAA (mod 256), on a bus that reports no interrupt; NOP
\* elsewhere.
SetupCompare(r, m, pf) ==
    Setup(Prepared(r, U8(r + 85), U8(r + 170), 255, 512, pf, 0),
          Place(512, <<201, m, 224, m, 192, m>>), 234, MaxIrqs)

\* Every operand and every value of each register, V clear and set.
InitCompare ==
    \E r \in 0..255, m \in 0..255, pf \in {Z + N, C + V} :
       InitAt(SetupCompare(r, m, pf))

SpecCompare == InitCompare /\ [][Next]_vars

\* The opcodes BPL, BMI, BVC, BVS, BCC, BCS, BNE, BEQ.
BranchOpcodes == {16, 48, 80, 112, 144, 176, 208, 240}

\* A branch with displacement d at a, for every value of N, V, Z, C, on a
\* bus that reports no interrupt; NOP elsewhere.
SetupsBranch ==
    {Setup(Prepared(17, 34, 51, 255, a, n + v + z + c, 0),
           Place(a, <<opc, d>>), 234, MaxIrqs) :
        opc \in BranchOpcodes, a \in {0, 512, 65407, 65534},
        d \in {0, 1, 127, 128, 254, 255},
        n \in {0, N}, v \in {0, V}, z \in {0, Z}, c \in {0, C}}

\* Any byte as the opcode at 0x0200, NOP after it and elsewhere, on a bus
\* that reports no interrupt.
SetupsAnyOpcode ==
    {Setup(Prepared(17, 34, 51, 128, 512, pf, 0),
           Place(512, <<opc>>), 234, MaxIrqs) :
        opc \in 0..255, pf \in {C + V, Z + I + D + N}}

\* A shift, rotate, increment or decrement at 0x0200 with operand byte
\* 0x10: the accumulator and zero-page forms of ASL, ROL, LSR, ROR, then
\* DEC zp, INC zp, DEY, INY, DEX, INX.  A, X and Y hold r, cell 0x0010
\* holds v; on a bus that reports no interrupt; NOP elsewhere.
ModifyOpcodes ==
    {10, 6, 42, 38, 74, 70, 106, 102, 198, 230, 136, 200, 202, 232}

SetupsModify ==
    {Setup(Prepared(r, r, r, 255, 512, pf, 0),
           Place(512, <<opc, 16>>) @@ Place(16, <<v>>), 234, MaxIrqs) :
        opc \in ModifyOpcodes, r \in {0, 1, 127, 128, 255},
        v \in {0, 1, 64, 129, 255}, pf \in {0, C, Z + N, C + Z + N}}

\* ADC #m or SBC #m at 0x0200 with D set, on a bus that reports no
\* interrupt; NOP elsewhere.
SetupsDecimal ==
    {Setup(Prepared(a, 34, 51, 255, 512, pf, 0),
           Place(512, <<opc, m>>), 234, MaxIrqs) :
        opc \in {105, 233}, a \in {0, 9, 80, 153, 255},
        m \in {0, 1, 80, 153, 255}, pf \in {D, C + D, Z + D + V + N}}

\* LDA (zp,X) or LDA (zp),Y at 0x0200 with operand byte zp; the pointer
\* 0x1234 is stored at 0x00FF and 0x0000, and also at 0x0010 and 0x0011;
\* 0x56 at 0x0100; on a bus that reports no interrupt; NOP elsewhere.
SetupsIndirect ==
    {Setup(Prepared(17, x, y, 255, 512, pf, 0),
           Place(512, <<opc, zp>>) @@ Place(255, <<52>>) @@ Place(0, <<18>>)
               @@ Place(256, <<86>>) @@ Place(16, <<52, 18>>)
               @@ Place(4660, <<119, 136>>),
           234, MaxIrqs) :
        opc \in {161, 177}, zp \in {15, 16, 254, 255}, x \in {0, 1},
        y \in {0, 1}, pf \in {0, C + Z + V + N}}

\* A register transfer (TXA, TYA, TXS, TAY, TAX, TSX) at 0x0200 with
\* A = r, X = r + 0x80, Y = r + 1 and SP = r + 0x7F (mod 256), on a bus
\* that reports no interrupt; NOP elsewhere.
SetupsTransfer ==
    {Setup(Prepared(r, U8(r + 128), U8(r + 1), U8(r + 127), 512, pf, 0),
           Place(512, <<opc>>), 234, MaxIrqs) :
        opc \in {138, 152, 154, 168, 170, 186},
        r \in {0, 1, 127, 128, 129, 255}, pf \in {0, Z, N, Z + N, C + V}}

InitProgram ==
    \/ InitFrom(SetupsModify)
    \/ InitFrom(SetupsTransfer)
    \/ InitFrom(SetupsIndirect)
    \/ InitFrom(SetupsDecimal)
    \/ InitFrom(SetupsPushPull)
    \/ InitFrom(SetupsInterruptReturn)
    \/ InitFrom(SetupsCallReturn)
    \/ InitFrom(SetupsJumpIndirect)
    \/ InitFrom(SetupsBranch)
    \/ InitFrom(SetupsAnyOpcode)

SpecProgram == InitProgram /\ [][Next]_vars

----------------------------------------------------------------------------
(* Vocabulary of the properties.  pre and preMem are the CPU and the       *)
(* memory before the last Step, log the bus calls of the last Step, ret    *)
(* the value it returned.                                                  *)

Stepped == steps > 0

\* the bit of the single-bit mask m is set in v
HasBit(v, m) == (v \div m) % 2 = 1

\* The little-endian 16-bit value at a and a+1 in the current memory.
Read16(a) == BusRead(mem, fill, a) + 256 * BusRead(mem, fill, a + 1)

\* The byte at PC before the last Step.
Opcode == BusRead(preMem, fill, pre.pc)

\* The last Step found nothing latched and the byte opc at PC.
Executes(opc) == Stepped /\ pre.intMask = 0 /\ ~pre.halt /\ Opcode = opc

\* The last Step started with NMI latched.
NmiDue == Stepped /\ HasBit(pre.intMask, NMI)

\* The last Step started with IRQ latched, NMI not, and P.I clear.
IrqDue ==
    /\ Stepped
    /\ ~HasBit(pre.intMask, NMI)
    /\ HasBit(pre.intMask, IRQ)
    /\ ~HasBit(pre.pf, I)

StackAddr(spv) == 256 + (spv % 256)

\* Events k+1..k+5 of log are an interrupt entry from (pcv, pushed status
\* pv, stack pointer pre.sp) through the vector at vec.
EntryAt(k, pcv, pv, vec) ==
    /\ Len(log) = k + 6
    /\ log[k + 1] = Ev("W", StackAddr(pre.sp), pcv \div 256)
    /\ log[k + 2] = Ev("W", StackAddr(pre.sp + 255), pcv % 256)
    /\ log[k + 3] = Ev("W", StackAddr(pre.sp + 254), pv)
    /\ log[k + 4] = Ev("R", vec, BusRead(mem, fill, vec))
    /\ log[k + 5] = Ev("R", vec + 1, BusRead(mem, fill, vec + 1))
    /\ log[k + 6].op = "C"
    /\ cpu.sp = (pre.sp + 253) % 256
    /\ HasBit(cpu.pf, I)
    /\ cpu.pc = Read16(vec)
    /\ cpu.acc = pre.acc /\ cpu.x = pre.x /\ cpu.y = pre.y

----------------------------------------------------------------------------
(* C1: every Step returns a strictly positive cycle count.                 *)
C1_StepReturnsPositive == Stepped => ret > 0

----------------------------------------------------------------------------
(* C2: the value a Step returns is the number of bus Read and Write calls  *)
(* it made; Clock is called exactly once per Step, with that value, after  *)
(* all the Reads and Writes of the Step and before those of the next.      *)
ClockedLast(l, r) ==
    /\ Len(l) = r + 1
    /\ \A i \in 1..r : l[i].op \in {"R", "W"}
    /\ l[r + 1].op = "C"
    /\ l[r + 1].a = r

C2_CyclesAreBusAccesses ==
    /\ Stepped => ClockedLast(log, ret) /\ cpu.cycles = 0
    /\ steps > 1 =>
          LET trace == prevLog \o log
              clocks == {i \in 1..Len(trace) : trace[i].op = "C"}
          IN clocks = {Len(prevLog), Len(trace)}

\* two consecutive Steps that both read and wrote: JSR, then an NMI entry
C2_Witness ==
    /\ steps > 1
    /\ NmiDue
    /\ ret = 5
    /\ Len(prevLog) = 6
    /\ prevLog[1].d = 32
    /\ \E i \in 1..5 : prevLog[i].op = "W"

----------------------------------------------------------------------------
(* C3: an IRQ latched while P.I = 1 does not stop the next Step from       *)
(* fetching and executing the instruction at PC, and stays latched; with   *)
(* P.I = 0 the Step performs the IRQ entry through 0xFFFE.                 *)
C3_MaskedIrqRunsInstruction ==
    /\ (Stepped /\ pre.intMask = IRQ /\ HasBit(pre.pf, I) /\ ~pre.halt) =>
          /\ Len(log) >= 2
          /\ log[1] = Ev("R", pre.pc, Opcode)
          /\ HasBit(cpu.intMask, IRQ)
    /\ IrqDue => EntryAt(0, pre.pc, pre.pf, 65534)

----------------------------------------------------------------------------
(* C4: a Step that starts with NMI latched performs the NMI entry through  *)
(* 0xFFFA whatever P.I, halt and the IRQ latch are, and removes only NMI   *)
(* from the latch: a latched IRQ stays latched.                            *)
C4_NmiAlwaysEntered ==
    NmiDue =>
       /\ Len(log) = 6
       /\ log[4].op = "R" /\ log[4].a = 65530
       /\ log[5].op = "R" /\ log[5].a = 65531
       /\ cpu.pc = log[4].d + 256 * log[5].d
       /\ HasBit(cpu.intMask, NMI) <=> HasBit(log[6].d, NMI)
       /\ HasBit(cpu.intMask, IRQ) <=>
             (HasBit(pre.intMask, IRQ) \/ HasBit(log[6].d, IRQ))

\* NMI and IRQ both latched, P.I set, the bus reports nothing new
C4_Witness ==
    /\ NmiDue
    /\ pre.intMask = NMI + IRQ
    /\ HasBit(pre.pf, I)
    /\ log[6].d = 0
    /\ cpu.intMask = IRQ
    /\ cpu.pc = Read16(65530)

----------------------------------------------------------------------------
(* C5: an interrupt entry writes PC high, PC low and P to 0x0100|SP,       *)
(* 0x0100|(SP-1), 0x0100|(SP-2) in this order, leaves SP three lower       *)
(* (mod 256), sets P.I, loads PC from the vector (low byte first), makes   *)
(* five bus accesses and leaves A, X, Y alone.  BRK enters with the PC     *)
(* after its opcode and with B set in the pushed status.                   *)
C5_InterruptEntrySequence ==
    /\ NmiDue => EntryAt(0, pre.pc, pre.pf, 65530) /\ ret = 5
    /\ IrqDue => EntryAt(0, pre.pc, pre.pf, 65534) /\ ret = 5
    /\ Executes(0) =>
          /\ EntryAt(1, (pre.pc + 1) % 65536,
                     IF HasBit(pre.pf, B) THEN pre.pf ELSE pre.pf + B, 65534)
          /\ ret = 6

\* a hardware entry whose three pushes wrap around the stack page
C5_Witness ==
    /\ NmiDue \/ IrqDue
    /\ pre.sp = 0
    /\ log[1].a = 256 /\ log[2].a = 511 /\ log[3].a = 510
    /\ cpu.sp = 253
    /\ pre.pc # 65534

----------------------------------------------------------------------------
(* C6: after every interrupt entry (NMI, IRQ or BRK) P.D is 0 and P.I is 1.*)
C6_EntryClearsDecimal ==
    (NmiDue \/ IrqDue \/ Executes(0)) =>
        ~HasBit(cpu.pf, D) /\ HasBit(cpu.pf, I)

----------------------------------------------------------------------------
(* C7: BRK pushes a status byte with bit 4 set, NMI and IRQ entries push   *)
(* one with bit 4 clear, and P never holds bit 4 between Steps.            *)
C7_BreakFlagConvention ==
    /\ Executes(0) => Len(log) >= 4 /\ HasBit(log[4].d, B)
    /\ (NmiDue \/ IrqDue) => Len(log) >= 3 /\ ~HasBit(log[3].d, B)
    /\ ~HasBit(cpu.pf, B)

----------------------------------------------------------------------------
(* C8: bit 5 of P is 1 in every reachable state, and so is bit 5 of every  *)
(* status byte written to the stack by PHP, BRK and the NMI/IRQ entries.   *)
C8_Bit5AlwaysSet ==
    /\ HasBit(cpu.pf, 32)
    /\ Executes(8) => Len(log) >= 2 /\ HasBit(log[2].d, 32)
    /\ Executes(0) => Len(log) >= 4 /\ HasBit(log[4].d, 32)
    /\ (NmiDue \/ IrqDue) => Len(log) >= 3 /\ HasBit(log[3].d, 32)

----------------------------------------------------------------------------
(* C9: a new CPU has A = X = Y = 0, SP = 0xFF, PC = the 16-bit value at    *)
(* the reset vector 0xFFFC/0xFFFD, P.I = 1, P.D = 0, an empty latch, a     *)
(* zero cycle counter and halt cleared.                                    *)
C9_NewIsReset ==
    steps = 0 =>
       /\ cpu.acc = 0 /\ cpu.x = 0 /\ cpu.y = 0
       /\ cpu.sp = 255
       /\ cpu.pc = Read16(65532)
       /\ HasBit(cpu.pf, I) /\ ~HasBit(cpu.pf, D)
       /\ cpu.intMask = 0
       /\ cpu.cycles = 0
       /\ ~cpu.halt

----------------------------------------------------------------------------
(* C10: a push writes to 0x0100|SP and then decrements SP mod 256, a pop   *)
(* increments SP mod 256 and then reads 0x0100|SP; a push at SP = 0 writes *)
(* 0x0100 and leaves SP = 0xFF; a pop right after a push returns the       *)
(* pushed byte and restores SP.                                            *)
PushAt(k, spv, data) == log[k] = Ev("W", StackAddr(spv), data)

PopAt(k, spv) ==
    log[k] = Ev("R", StackAddr(spv + 1), BusRead(mem, fill, StackAddr(spv + 1)))

C10_StackDiscipline ==
    /\ Executes(72) =>          \* PHA
          Len(log) = 3 /\ PushAt(2, pre.sp, pre.acc)
          /\ cpu.sp = (pre.sp + 255) % 256
    /\ Executes(8) =>           \* PHP
          Len(log) = 3 /\ PushAt(2, pre.sp, pre.pf)
          /\ cpu.sp = (pre.sp + 255) % 256
    /\ Executes(32) =>          \* JSR
          Len(log) = 6
          /\ PushAt(4, pre.sp, ((pre.pc + 2) % 65536) \div 256)
          /\ PushAt(5, pre.sp + 255, ((pre.pc + 2) % 65536) % 256)
          /\ cpu.sp = (pre.sp + 254) % 256
    /\ Executes(104) =>         \* PLA
          Len(log) = 3 /\ PopAt(2, pre.sp)
          /\ cpu.sp = (pre.sp + 1) % 256 /\ cpu.acc = log[2].d
    /\ Executes(40) =>          \* PLP
          Len(log) = 3 /\ PopAt(2, pre.sp)
          /\ cpu.sp = (pre.sp + 1) % 256 /\ cpu.pf = log[2].d
    /\ Executes(96) =>          \* RTS
          Len(log) = 4 /\ PopAt(2, pre.sp) /\ PopAt(3, pre.sp + 1)
          /\ cpu.sp = (pre.sp + 2) % 256
    /\ Executes(64) =>          \* RTI
          Len(log) = 5 /\ PopAt(2, pre.sp) /\ PopAt(3, pre.sp + 1)
          /\ PopAt(4, pre.sp + 2)
          /\ cpu.sp = (pre.sp + 3) % 256
    \* PHA or PHP in the previous Step, PLA or PLP in this one
    /\ (steps > 1 /\ (Executes(104) \/ Executes(40))
        /\ Len(prevLog) = 3 /\ prevLog[2].op = "W" /\ prevLog[1].d \in {8, 72}) =>
          /\ log[2].a = prevLog[2].a
          /\ log[2].d = prevLog[2].d
          /\ StackAddr(cpu.sp) = prevLog[2].a

\* PHA at SP = 0 writes 0x0100 and leaves SP = 0xFF, and the PLA of the
\* next Step reads the byte back and leaves SP = 0
C10_Witness ==
    /\ steps > 1
    /\ Executes(104)
    /\ prevLog[1].d = 72
    /\ prevLog[2].op = "W" /\ prevLog[2].a = 256
    /\ pre.sp = 255
    /\ log[2] = Ev("R", 256, prevLog[2].d)
    /\ cpu.sp = 0

----------------------------------------------------------------------------
(* C11: PHA leaves A and every flag unchanged and stores A at 0x0100|SP;   *)
(* PLA sets A to the byte on top of the stack, moves SP up by one and sets *)
(* N to bit 7 of that byte and Z to (byte = 0).                            *)
C11_PhaPlaRoundTrip ==
    /\ Executes(72) =>
          /\ cpu.acc = pre.acc
          /\ cpu.pf = pre.pf
          /\ BusRead(mem, fill, StackAddr(pre.sp)) = pre.acc
    /\ Executes(104) =>
          /\ cpu.acc = BusRead(preMem, fill, StackAddr(pre.sp + 1))
          /\ cpu.sp = (pre.sp + 1) % 256
          /\ HasBit(cpu.pf, N) <=> cpu.acc >= 128
          /\ HasBit(cpu.pf, Z) <=> cpu.acc = 0

----------------------------------------------------------------------------
(* C12: when a Step performs an NMI or IRQ entry and the next Step         *)
(* executes RTI at the vector target (nothing latched in between), that    *)
(* Step leaves PC, SP and P as they were before the entry, and A, X, Y     *)
(* unchanged.                                                              *)
C12_RtiInvertsEntry ==
    [][((NmiDue \/ IrqDue)
        /\ cpu.intMask = 0
        /\ ~cpu.halt
        /\ BusRead(mem, fill, cpu.pc) = 64) =>
           /\ cpu'.pc = pre.pc
           /\ cpu'.sp = pre.sp
           /\ cpu'.pf = pre.pf
           /\ cpu'.acc = pre.acc /\ cpu'.x = pre.x /\ cpu'.y = pre.y]_vars

\* an IRQ entry at SP = 1, whose pushes wrap around the stack page, then
\* the RTI of its handler: back at 0x1234 with SP = 1
C12_Witness ==
    /\ steps = 2
    /\ Executes(64)
    /\ Len(prevLog) = 6
    /\ prevLog[1] = Ev("W", 257, 18)
    /\ prevLog[2] = Ev("W", 256, 52)
    /\ prevLog[3].op = "W" /\ prevLog[3].a = 511
    /\ prevLog[4].a = 65534
    /\ pre.pc = 36864
    /\ cpu.pc = 4660
    /\ cpu.sp = 1
    /\ cpu.pf = prevLog[3].d
    /\ cpu.acc = 17 /\ cpu.x = 34 /\ cpu.y = 51

----------------------------------------------------------------------------
(* C13: JSR at address a with target t writes the high byte of a+2 to      *)
(* 0x0100|SP and then the low byte to 0x0100|(SP-1), sets PC = t and       *)
(* leaves SP two lower (mod 256); an RTS executed by the next Step sets    *)
(* PC = a+3 (mod 65536) and SP back to its value before the JSR.           *)
C13_JsrRtsRoundTrip ==
    /\ [](Executes(32) =>
            /\ Len(log) = 6
            /\ log[4] = Ev("W", StackAddr(pre.sp), ((pre.pc + 2) % 65536) \div 256)
            /\ log[5] = Ev("W", StackAddr(pre.sp + 255), (pre.pc + 2) % 256)
            /\ cpu.pc = BusRead(preMem, fill, (pre.pc + 1) % 65536)
                        + 256 * BusRead(preMem, fill, (pre.pc + 2) % 65536)
            /\ cpu.sp = (pre.sp + 254) % 256)
    /\ [][(Executes(32)
           /\ cpu.intMask = 0
           /\ BusRead(mem, fill, cpu.pc) = 96) =>
              /\ cpu'.pc = (pre.pc + 3) % 65536
              /\ cpu'.sp = pre.sp]_vars

\* JSR at 0xFFFE with SP = 0: the return address 0x0000 goes to 0x0100 and
\* 0x01FF, and the RTS comes back to 0x0001 with SP = 0
C13_Witness ==
    /\ steps = 2
    /\ Executes(96)
    /\ prevLog[1] = Ev("R", 65534, 32)
    /\ prevLog[4] = Ev("W", 256, 0)
    /\ prevLog[5] = Ev("W", 511, 0)
    /\ pre.sp = 254
    /\ cpu.pc = 1
    /\ cpu.sp = 0

----------------------------------------------------------------------------
(* C14: JMP (hhll) sets PC to the little-endian 16-bit value stored at     *)
(* hhll and (hhll+1) mod 65536, also when the low byte of the pointer is   *)
(* 0xFF: the high byte then comes from the first cell of the next page.    *)
C14_JmpIndirectNoPageWrap ==
    Executes(108) =>
       LET ptr == BusRead(preMem, fill, (pre.pc + 1) % 65536)
                  + 256 * BusRead(preMem, fill, (pre.pc + 2) % 65536)
       IN /\ Len(log) = 6
          /\ log[4].op = "R" /\ log[4].a = ptr
          /\ log[5].op = "R" /\ log[5].a = (ptr + 1) % 65536
          /\ cpu.pc = BusRead(preMem, fill, ptr)
                      + 256 * BusRead(preMem, fill, (ptr + 1) % 65536)

----------------------------------------------------------------------------
(* C15: with D = 0, ADC of operand M leaves A = (A+M+C) mod 256, C = 1 iff *)
(* A+M+C >= 256, V = 1 iff bit 7 of (~(A^M)) & (A^result) is set, N = bit  *)
(* 7 of the result and Z = (result = 0); SBC of M gives what ADC of the    *)
(* bitwise-inverted M gives.                                               *)
AdcResult(a, m, c, p) ==
    LET sum == a + m + c
        r == sum % 256
    IN /\ p.acc = r
       /\ HasBit(p.pf, C) <=> sum >= 256
       /\ HasBit(p.pf, V) <=> And(And(Not8(Xor(a, m)), Xor(a, r)), 128) # 0
       /\ HasBit(p.pf, N) <=> r >= 128
       /\ HasBit(p.pf, Z) <=> r = 0

\* The byte after the opcode of the last Step.
Operand == BusRead(preMem, fill, (pre.pc + 1) % 65536)

C15_AdcSbcResult ==
    /\ (Executes(105) /\ ~HasBit(pre.pf, D)) =>
          AdcResult(pre.acc, Operand, pre.pf % 2, cpu)
    /\ (Executes(233) /\ ~HasBit(pre.pf, D)) =>
          AdcResult(pre.acc, 255 - Operand, pre.pf % 2, cpu)

----------------------------------------------------------------------------
(* C16: with D = 0, ADC #M followed by SBC #M, the SBC taking the carry    *)
(* the ADC left, leaves A = (A + C - 1 + c) mod 256, where C is the carry  *)
(* before the ADC and c the carry out of it (1 iff A+M+C >= 256): A comes  *)
(* back exactly when c differs from C; Z is left as (final A = 0).         *)

\* The last Step was ADC #M, the next one is SBC #M with the same M.
AdcThenSbc ==
    /\ Executes(105)
    /\ ~HasBit(pre.pf, D)
    /\ cpu.intMask = 0
    /\ BusRead(mem, fill, cpu.pc) = 233
    /\ BusRead(mem, fill, (cpu.pc + 1) % 65536) = Operand

C16_AdcSbcCarryRoundTrip ==
    [][AdcThenSbc =>
         LET cin == pre.pf % 2
             cout == IF pre.acc + Operand + cin >= 256 THEN 1 ELSE 0
         IN /\ cpu'.acc = (pre.acc + cin + cout + 255) % 256
            /\ (cin # cout) => cpu'.acc = pre.acc
            /\ HasBit(cpu'.pf, Z) <=> cpu'.acc = 0]_vars

\* A = 0xFF, C = 0: ADC #1 gives 0x00 and carry, SBC #1 gives 0xFF back
C16_Witness ==
    /\ steps = 2
    /\ Executes(233)
    /\ Operand = 1
    /\ prevLog[1].d = 105 /\ prevLog[2].d = 1
    /\ pre.acc = 0 /\ HasBit(pre.pf, C) /\ HasBit(pre.pf, Z)
    /\ cpu.acc = 255
    /\ ~HasBit(cpu.pf, Z)

\* C16 as stated: ADC #M then SBC #M returns A to its value before the ADC
\* and leaves Z = (A = 0), whatever the carry.
C16_AdcSbcRoundTrip ==
    [][AdcThenSbc =>
         /\ cpu'.acc = pre.acc
         /\ HasBit(cpu'.pf, Z) <=> pre.acc = 0]_vars

----------------------------------------------------------------------------
(* C17: a compare of register R (A for CMP, X for CPX, Y for CPY) with     *)
(* operand M leaves A, X, Y and SP unchanged and sets N = bit 7 of         *)
(* (R - M) mod 256, Z = (R = M) and C = (R >= M); V and every other bit of *)
(* P keep their value.                                                     *)
CompareResult(r, m) ==
    /\ cpu.acc = pre.acc /\ cpu.x = pre.x /\ cpu.y = pre.y /\ cpu.sp = pre.sp
    /\ HasBit(cpu.pf, N) <=> (r + 256 - m) % 256 >= 128
    /\ HasBit(cpu.pf, Z) <=> r = m
    /\ HasBit(cpu.pf, C) <=> r >= m
    /\ \A f \in {I, D, B, 32, V} : HasBit(cpu.pf, f) <=> HasBit(pre.pf, f)

C17_CompareIsSubtractWithoutStore ==
    /\ Executes(201) => CompareResult(pre.acc, Operand)
    /\ Executes(224) => CompareResult(pre.x, Operand)
    /\ Executes(192) => CompareResult(pre.y, Operand)

\* CPX #1 with X = 0 and V set: N = 1, Z = 0, C = 0, V still set
C17_Witness ==
    /\ Executes(224)
    /\ pre.x = 0 /\ Operand = 1 /\ pre.acc # 0
    /\ HasBit(pre.pf, V)
    /\ cpu.x = 0
    /\ HasBit(cpu.pf, N) /\ ~HasBit(cpu.pf, Z) /\ ~HasBit(cpu.pf, C)
    /\ HasBit(cpu.pf, V)

----------------------------------------------------------------------------
(* C18: a branch opcode at address a with displacement byte d always       *)
(* fetches d (two bus accesses); PC becomes a+2 when the tested flag       *)
(* condition is false and (a + 2 + signed8(d)) mod 65536 when it is true;  *)
(* no other register, no flag and no memory cell changes.                  *)

\* The condition the branch opcode opc tests, on the status byte p.
BranchTaken(opc, p) ==
    CASE opc = 16 -> ~HasBit(p, N)
      [] opc = 48 -> HasBit(p, N)
      [] opc = 80 -> ~HasBit(p, V)
      [] opc = 112 -> HasBit(p, V)
      [] opc = 144 -> ~HasBit(p, C)
      [] opc = 176 -> HasBit(p, C)
      [] opc = 208 -> ~HasBit(p, Z)
      [] opc = 240 -> HasBit(p, Z)

Signed8(d) == IF d >= 128 THEN d - 256 ELSE d

C18_BranchTakenIffCondition ==
    (Opcode \in {16, 48, 80, 112, 144, 176, 208, 240} /\ Executes(Opcode)) =>
          /\ ret = 2
          /\ Len(log) = 3
          /\ log[2] = Ev("R", (pre.pc + 1) % 65536, Operand)
          /\ cpu.pc = IF BranchTaken(Opcode, pre.pf)
                      THEN (pre.pc + 2 + Signed8(Operand) + 65536) % 65536
                      ELSE (pre.pc + 2) % 65536
          /\ cpu.acc = pre.acc /\ cpu.x = pre.x /\ cpu.y = pre.y
          /\ cpu.sp = pre.sp /\ cpu.pf = pre.pf /\ cpu.halt = pre.halt
          /\ mem = preMem

\* BNE -128 at 0x0000 with Z clear goes back across address 0 to 0xFF82
C18_Witness ==
    /\ Executes(208)
    /\ pre.pc = 0
    /\ Operand = 128
    /\ ~HasBit(pre.pf, Z)
    /\ cpu.pc = 65410
    /\ ret = 2

----------------------------------------------------------------------------
(* C19: a Step that finds a byte without a case in the switch of           *)
(* executeInstruction (NOP, 0xEA, is one of them) reads that byte, returns *)
(* 1 and advances PC by one; A, X, Y, SP, P, halt and memory keep their    *)
(* values.  The 106 bytes are listed from the source.                      *)
UnassignedOpcodes ==
    {2, 3, 4, 7, 11, 12, 15, 18, 19, 20, 23, 26, 27, 28, 31, 34, 35,
     39, 43, 47, 50, 51, 52, 55, 58, 59, 60, 63, 66, 67, 68, 71, 75,
     79, 82, 83, 84, 87, 90, 91, 92, 95, 98, 99, 100, 103, 107, 111,
     114, 115, 116, 119, 122, 123, 124, 127, 128, 130, 131, 135, 137,
     139, 143, 146, 147, 151, 155, 156, 158, 159, 163, 167, 171, 175,
     178, 179, 183, 187, 191, 194, 195, 199, 203, 207, 210, 211, 212,
     215, 218, 219, 220, 223, 226, 227, 231, 234, 235, 239, 242, 243,
     244, 247, 250, 251, 252, 255}

C19_UnknownOpcodeIsNop ==
    (Opcode \in UnassignedOpcodes /\ Executes(Opcode)) =>
          /\ ret = 1
          /\ Len(log) = 2
          /\ log[1] = Ev("R", pre.pc, Opcode)
          /\ cpu.pc = (pre.pc + 1) % 65536
          /\ cpu.acc = pre.acc /\ cpu.x = pre.x /\ cpu.y = pre.y
          /\ cpu.sp = pre.sp /\ cpu.pf = pre.pf /\ cpu.halt = pre.halt
          /\ mem = preMem

\* the byte 0xFF, then NOP: two Steps of one cycle each
C19_Witness ==
    /\ steps = 2
    /\ Executes(234)
    /\ prevLog = <<Ev("R", 512, 255), Ev("C", 1, 0)>>
    /\ pre.pc = 513
    /\ cpu.pc = 514
    /\ cpu.acc = 17 /\ cpu.x = 34 /\ cpu.y = 51 /\ cpu.sp = 128
    /\ cpu.pf = Z + I + D + N
    /\ ret = 1

----------------------------------------------------------------------------
(* C20: over a Step the latch changes only by losing the source whose      *)
(* entry the Step performed and by gaining what the Clock call at the end  *)
(* of the Step returned: a latched source that was not entered stays       *)
(* latched, whatever the Step executed (BRK included), and an entry is     *)
(* performed only for a source that was latched before the Step began.     *)
C20_LatchMergedAndCleared ==
    Stepped =>
       LET clk == log[Len(log)].d
           entered == IF NmiDue THEN NMI ELSE IF IrqDue THEN IRQ ELSE 0
       IN /\ log[Len(log)].op = "C"
          /\ cpu.intMask \in 0..3
          /\ \A f \in {IRQ, NMI} :
                HasBit(cpu.intMask, f) <=>
                   (HasBit(clk, f) \/ (HasBit(pre.intMask, f) /\ f # entered))
          /\ (Len(log) = 6 /\ log[1].op = "W" /\ log[4].a = 65530) =>
                HasBit(pre.intMask, NMI)
          /\ (Len(log) = 6 /\ log[1].op = "W" /\ log[4].a = 65534) =>
                HasBit(pre.intMask, IRQ)

\* BRK whose Clock call returns IRQ and NMI: both are latched after it, the
\* next Step enters NMI and leaves IRQ latched
C20_Witness ==
    /\ steps > 1
    /\ Len(prevLog) = 7
    /\ prevLog[1].op = "R" /\ prevLog[1].d = 0
    /\ prevLog[7] = Ev("C", 6, IRQ + NMI)
    /\ pre.intMask = IRQ + NMI
    /\ Len(log) = 6
    /\ log[4].a = 65530
    /\ log[6] = Ev("C", 5, 0)
    /\ cpu.intMask = IRQ

----------------------------------------------------------------------------
(* C21: the accumulator forms of ASL, ROL, LSR, ROR (0x0A, 0x2A, 0x4A,     *)
(* 0x6A) shift A with no bus access but the opcode fetch and write nothing *)
(* to memory; the zero-page forms (0x06, 0x26, 0x46, 0x66) read the        *)
(* operand cell, write the shifted value back to it and leave A unchanged. *)
(* C receives the bit shifted out; ROL and ROR shift the old C in.         *)

\* The value v shifted by the opcode opc, with carry cin.
ShiftedValue(opc, v, cin) ==
    CASE opc \in {10, 6} -> (2 * v) % 256
      [] opc \in {42, 38} -> (2 * v + cin) % 256
      [] opc \in {74, 70} -> v \div 2
      [] opc \in {106, 102} -> (v \div 2) + 128 * cin

\* The bit the opcode opc shifts out of v is 1.
ShiftedOut(opc, v) ==
    IF opc \in {10, 6, 42, 38} THEN v >= 128 ELSE v % 2 = 1

C21_ShiftOperandByMode ==
    /\ (Opcode \in {10, 42, 74, 106} /\ Executes(Opcode)) =>
          /\ Len(log) = 2
          /\ ret = 1
          /\ mem = preMem
          /\ cpu.pc = (pre.pc + 1) % 65536
          /\ cpu.acc = ShiftedValue(Opcode, pre.acc, pre.pf % 2)
          /\ HasBit(cpu.pf, C) <=> ShiftedOut(Opcode, pre.acc)
    /\ (Opcode \in {6, 38, 70, 102} /\ Executes(Opcode)) =>
          LET v == BusRead(preMem, fill, Operand)
          IN /\ Len(log) = 5
             /\ log[3] = Ev("R", Operand, v)
             /\ log[4] = Ev("W", Operand, ShiftedValue(Opcode, v, pre.pf % 2))
             /\ cpu.acc = pre.acc
             /\ HasBit(cpu.pf, C) <=> ShiftedOut(Opcode, v)

----------------------------------------------------------------------------
(* C22: after INC, DEC (zero page), INX, DEX, INY, DEY and after ASL, ROL, *)
(* LSR, ROR (accumulator and zero page) N is bit 7 of the new value and Z  *)
(* is (new value = 0); the increments and decrements leave C unchanged.    *)

\* N and Z of the status byte p are those of the value v.
ReflectsNZ(p, v) ==
    /\ HasBit(p, N) <=> v >= 128
    /\ HasBit(p, Z) <=> v = 0

C22_FlagsReflectNewValue ==
    LET v == BusRead(preMem, fill, Operand)
        cin == pre.pf % 2
        keepsC == HasBit(cpu.pf, C) <=> HasBit(pre.pf, C)
    IN /\ Executes(230) => ReflectsNZ(cpu.pf, (v + 1) % 256) /\ keepsC
       /\ Executes(198) => ReflectsNZ(cpu.pf, (v + 255) % 256) /\ keepsC
       /\ Executes(232) => ReflectsNZ(cpu.pf, (pre.x + 1) % 256) /\ keepsC
       /\ Executes(202) => ReflectsNZ(cpu.pf, (pre.x + 255) % 256) /\ keepsC
       /\ Executes(200) => ReflectsNZ(cpu.pf, (pre.y + 1) % 256) /\ keepsC
       /\ Executes(136) => ReflectsNZ(cpu.pf, (pre.y + 255) % 256) /\ keepsC
       /\ (Opcode \in {10, 42, 74, 106} /\ Executes(Opcode)) =>
             ReflectsNZ(cpu.pf, ShiftedValue(Opcode, pre.acc, cin))
       /\ (Opcode \in {6, 38, 70, 102} /\ Executes(Opcode)) =>
             ReflectsNZ(cpu.pf, ShiftedValue(Opcode, v, cin))

----------------------------------------------------------------------------
(* C23: with P.D = 1, ADC and SBC leave in A and in N, V, Z, C the binary  *)
(* result of A + M + C (M inverted for SBC), as they do with D = 0, and    *)
(* leave D set.                                                            *)
C23_DecimalIsBinary ==
    /\ (Executes(105) /\ HasBit(pre.pf, D)) =>
          AdcResult(pre.acc, Operand, pre.pf % 2, cpu) /\ HasBit(cpu.pf, D)
    /\ (Executes(233) /\ HasBit(pre.pf, D)) =>
          AdcResult(pre.acc, 255 - Operand, pre.pf % 2, cpu)
          /\ HasBit(cpu.pf, D)

----------------------------------------------------------------------------
(* C24: the zero-page indirect modes (zp,X) and (zp),Y read the low byte   *)
(* of the pointer at zero-page address p and the high byte at (p+1) mod    *)
(* 256: with p = 0xFF the reads are at 0x00FF and 0x0000.  p is (zp + X)   *)
(* mod 256 for (zp,X) and zp for (zp),Y.  Stated for LDA.                  *)

\* The last Step read its pointer at p and (p+1) mod 256, added index to it
\* and loaded A from there.
PointerReadAt(p, index) ==
    LET lo == BusRead(preMem, fill, p)
        hi == BusRead(preMem, fill, (p + 1) % 256)
        ea == (lo + 256 * hi + index) % 65536
    IN /\ Len(log) = 6
       /\ log[3] = Ev("R", p, lo)
       /\ log[4] = Ev("R", (p + 1) % 256, hi)
       /\ log[5] = Ev("R", ea, BusRead(preMem, fill, ea))
       /\ cpu.acc = log[5].d

C24_ZeroPagePointerWraps ==
    /\ Executes(161) => PointerReadAt((Operand + pre.x) % 256, 0)
    /\ Executes(177) => PointerReadAt(Operand, pre.y)

----------------------------------------------------------------------------
(* C25: TXS copies X into SP and changes nothing else, no bit of P         *)
(* included; TAX, TAY, TSX, TXA and TYA copy the source into the           *)
(* destination and set N and Z from the value copied.                      *)
C25_TxsKeepsFlags ==
    /\ Executes(154) =>
          /\ cpu.sp = pre.x
          /\ cpu.pf = pre.pf
          /\ cpu.acc = pre.acc /\ cpu.x = pre.x /\ cpu.y = pre.y
          /\ cpu.pc = (pre.pc + 1) % 65536
          /\ mem = preMem
    /\ Executes(170) => cpu.x = pre.acc /\ ReflectsNZ(cpu.pf, pre.acc)
    /\ Executes(168) => cpu.y = pre.acc /\ ReflectsNZ(cpu.pf, pre.acc)
    /\ Executes(186) => cpu.x = pre.sp /\ ReflectsNZ(cpu.pf, pre.sp)
    /\ Executes(138) => cpu.acc = pre.x /\ ReflectsNZ(cpu.pf, pre.x)
    /\ Executes(152) => cpu.acc = pre.y /\ ReflectsNZ(cpu.pf, pre.y)

====
